---- MODULE Spec2Model ----
(***************************************************************************)
(* Model of internal/selectors/selectors.go: the propagation selectors of  *)
(* the hierarchical namespace controller.                                  *)
(*                                                                         *)
(* A Go string is modelled as a sequence of chunks.  A chunk is one        *)
(* character ("a", "!", ","), or one of three named multi-character        *)
(* pieces: Run (63 lowercase letters, used to reach the DNS label length   *)
(* limit), Suffix (api.LabelTreeDepthSuffix) and the annotation-key        *)
(* constants that error messages embed.                                    *)
(***************************************************************************)
EXTENDS Integers, Sequences, FiniteSets, TLC

VARIABLES inst, nsLabels, ret

vars == <<inst, nsLabels, ret>>

(***************************************************************************)
(* Bounds of the model.                                                    *)
(***************************************************************************)
MaxTreeLen == 4
MaxFlagLen == 2

(***************************************************************************)
(* Constants of the api package and of the libraries the code calls.       *)
(***************************************************************************)
AnnotationSelector == "propagate.hnc.x-k8s.io/select"
AnnotationTreeSelector == "propagate.hnc.x-k8s.io/treeSelect"
AnnotationNoneSelector == "propagate.hnc.x-k8s.io/none"
AnnotationAllSelector == "propagate.hnc.x-k8s.io/all"
LabelTreeDepthSuffix == ".tree.hnc.x-k8s.io/depth"
DNS1123LabelMaxLength == 63

Run == "a{63}"

(***************************************************************************)
(* Strings.                                                                *)
(***************************************************************************)
ChunkWidth(c) ==
    IF c = Run THEN DNS1123LabelMaxLength
    ELSE IF c = LabelTreeDepthSuffix THEN 24
    ELSE 1

RECURSIVE StrLen(_)
StrLen(s) == IF s = <<>> THEN 0 ELSE ChunkWidth(Head(s)) + StrLen(Tail(s))

isWhitespace(c) == c \in {" ", "\t", "\r", "\n"}

LowerChars == {"a", "b", "e", "f", "l", "r", "s", "t", "u", "x", Run}
UpperChars == {"A", "E", "F", "L", "R", "S", "T", "U"}
DigitChars == {"0", "1"}

isLowerAlnum(c) == c \in LowerChars \cup DigitChars
isAlnum(c) == c \in LowerChars \cup UpperChars \cup DigitChars

\* strings.TrimSpace
RECURSIVE TrimLeft(_)
TrimLeft(s) ==
    IF s # <<>> /\ isWhitespace(Head(s)) THEN TrimLeft(Tail(s)) ELSE s

RECURSIVE TrimRight(_)
TrimRight(s) ==
    IF s # <<>> /\ isWhitespace(s[Len(s)])
    THEN TrimRight(SubSeq(s, 1, Len(s) - 1))
    ELSE s

TrimSpace(s) == TrimRight(TrimLeft(s))

\* strings.Split(s, ","): always at least one segment
RECURSIVE SplitFrom(_, _, _)
SplitFrom(s, sep, cur) ==
    IF s = <<>> THEN <<cur>>
    ELSE IF Head(s) = sep THEN <<cur>> \o SplitFrom(Tail(s), sep, <<>>)
    ELSE SplitFrom(Tail(s), sep, Append(cur, Head(s)))

Split(s, sep) == SplitFrom(s, sep, <<>>)

\* strings.Join
RECURSIVE Join(_, _)
Join(parts, sep) ==
    IF parts = <<>> THEN <<>>
    ELSE IF Len(parts) = 1 THEN parts[1]
    ELSE parts[1] \o sep \o Join(Tail(parts), sep)

\* All strings over an alphabet of at most n chunks
RECURSIVE StringsUpTo(_, _)
StringsUpTo(alphabet, n) ==
    IF n = 0 THEN {<<>>}
    ELSE LET shorter == StringsUpTo(alphabet, n - 1)
         IN  shorter \cup {Append(s, c) : s \in shorter, c \in alphabet}

Str1(a) == <<a>>
Str4(a, b, c, d) == <<a, b, c, d>>
Str5(a, b, c, d, e) == <<a, b, c, d, e>>

(***************************************************************************)
(* Errors: a Go error is its message; nil is the error that is not one.    *)
(***************************************************************************)
NilErr == [isErr |-> FALSE, msg |-> <<>>]
Errorf(msg) == [isErr |-> TRUE, msg |-> msg]

(***************************************************************************)
(* Maps: a Go map read of an absent key gives the zero value.              *)
(***************************************************************************)
MapGet(m, k) == IF k \in DOMAIN m THEN m[k] ELSE <<>>
MapHas(m, k) == k \in DOMAIN m

GetSelectorAnnotation(o) == MapGet(o.annotations, AnnotationSelector)
GetTreeSelectorAnnotation(o) == MapGet(o.annotations, AnnotationTreeSelector)
GetNoneSelectorAnnotation(o) == MapGet(o.annotations, AnnotationNoneSelector)
GetAllSelectorAnnotation(o) == MapGet(o.annotations, AnnotationAllSelector)

(***************************************************************************)
(* strconv.ParseBool                                                       *)
(***************************************************************************)
TrueLiterals ==
    {Str1("1"), Str1("t"), Str1("T"), Str4("T", "R", "U", "E"),
     Str4("t", "r", "u", "e"), Str4("T", "r", "u", "e")}
FalseLiterals ==
    {Str1("0"), Str1("f"), Str1("F"), Str5("F", "A", "L", "S", "E"),
     Str5("f", "a", "l", "s", "e"), Str5("F", "a", "l", "s", "e")}

ParseBool(str) ==
    IF str \in TrueLiterals THEN [val |-> TRUE, err |-> NilErr]
    ELSE IF str \in FalseLiterals THEN [val |-> FALSE, err |-> NilErr]
    ELSE [val |-> FALSE,
          err |-> Errorf(<<"strconv.ParseBool: parsing ">> \o str
                         \o <<": invalid syntax">>)]

\* GetNoneSelector without the empty-string default
GetNoneSelectorNoDefault(o) ==
    LET r == ParseBool(GetNoneSelectorAnnotation(o))
    IN  IF r.err.isErr
        THEN [val |-> FALSE,
              err |-> Errorf(<<"invalid ", AnnotationNoneSelector, " value: ">>
                             \o r.err.msg)]
        ELSE [val |-> r.val, err |-> NilErr]

GetNoneSelector(o) ==
    LET noneSelectorStr == GetNoneSelectorAnnotation(o)
    IN  IF noneSelectorStr = <<>> THEN [val |-> FALSE, err |-> NilErr]
        ELSE LET r == ParseBool(noneSelectorStr)
             IN  IF r.err.isErr
                 THEN [val |-> FALSE,
                       err |-> Errorf(<<"invalid ", AnnotationNoneSelector,
                                        " value: ">> \o r.err.msg)]
                 ELSE [val |-> r.val, err |-> NilErr]

GetAllSelector(o) ==
    LET allSelectorStr == GetAllSelectorAnnotation(o)
    IN  IF allSelectorStr = <<>> THEN [val |-> FALSE, err |-> NilErr]
        ELSE LET r == ParseBool(allSelectorStr)
             IN  IF r.err.isErr
                 THEN [val |-> FALSE,
                       err |-> Errorf(<<"invalid ", AnnotationAllSelector,
                                        " value: ">> \o r.err.msg)]
                 ELSE [val |-> r.val, err |-> NilErr]

(***************************************************************************)
(* validation.IsDNS1123Label, IsQualifiedName, IsValidLabelValue           *)
(***************************************************************************)
\* dns1123LabelRegexp: [a-z0-9]([-a-z0-9]*[a-z0-9])?
MatchesDNS1123Label(value) ==
    /\ value # <<>>
    /\ isLowerAlnum(value[1])
    /\ isLowerAlnum(value[Len(value)])
    /\ \A i \in 1..Len(value) : isLowerAlnum(value[i]) \/ value[i] = "-"

IsDNS1123Label(value) ==
    (IF StrLen(value) > DNS1123LabelMaxLength
     THEN <<"must be no more than 63 characters">> ELSE <<>>)
    \o
    (IF ~MatchesDNS1123Label(value)
     THEN <<"a lowercase RFC 1123 label must consist of lower case alphanumeric characters or '-', and must start and end with an alphanumeric character">>
     ELSE <<>>)

\* qualifiedNameFmt: ([A-Za-z0-9][-A-Za-z0-9_.]*)?[A-Za-z0-9]
isNameChar(c) == isAlnum(c) \/ c \in {"-", "_", "."}

MatchesQualifiedNameTail(rest) ==
    \* the text that follows "depth" inside a name
    /\ \A i \in 1..Len(rest) : isNameChar(rest[i])
    /\ rest # <<>> => isAlnum(rest[Len(rest)])

MatchesName(name) ==
    /\ name # <<>>
    /\ isAlnum(name[1])
    /\ isAlnum(name[Len(name)])
    /\ \A i \in 1..Len(name) : isNameChar(name[i])

\* the label key is prefix/name; the only "/" of the model is the one
\* inside LabelTreeDepthSuffix, whose prefix part is ".tree.hnc.x-k8s.io"
\* (18 characters) and whose name part starts with "depth" (5 characters)
IsQualifiedName(key) ==
    LET slashes == {i \in 1..Len(key) : key[i] = LabelTreeDepthSuffix}
    IN  IF slashes = {} THEN MatchesName(key) /\ StrLen(key) <= 63
        ELSE IF Cardinality(slashes) > 1 THEN FALSE
        ELSE LET i == CHOOSE j \in slashes : TRUE
                 pre == SubSeq(key, 1, i - 1)
                 rest == SubSeq(key, i + 1, Len(key))
             IN  /\ MatchesDNS1123Label(pre)
                 /\ StrLen(pre) + 18 <= 253
                 /\ MatchesQualifiedNameTail(rest)
                 /\ 5 + StrLen(rest) <= 63

\* labelValueFmt: (([A-Za-z0-9][-A-Za-z0-9_.]*)?[A-Za-z0-9])?
IsValidLabelValue(v) ==
    /\ StrLen(v) <= 63
    /\ v # <<>> => MatchesName(v)

(***************************************************************************)
(* labels.Lexer                                                            *)
(***************************************************************************)
isSpecialSymbol(c) == c \in {"=", "!", "(", ")", ",", ">", "<"}

string2token(lit) ==
    CASE lit = <<")">> -> "ClosedPar"
      [] lit = <<",">> -> "Comma"
      [] lit = <<"!">> -> "DoesNotExist"
      [] lit = <<"=", "=">> -> "DoubleEquals"
      [] lit = <<"=">> -> "Equals"
      [] lit = <<">">> -> "GreaterThan"
      [] lit = <<"<">> -> "LessThan"
      [] lit = <<"!", "=">> -> "NotEquals"
      [] lit = <<"(">> -> "OpenPar"
      [] OTHER -> "none"

NoItem == [tok |-> "none", lit |-> <<>>]
EndOfString == [tok |-> "EndOfString", lit |-> <<>>]

RECURSIVE scanSpecialSymbol(_, _, _)
scanSpecialSymbol(s, buffer, last) ==
    LET done ==
            [item |-> IF last.tok = "none"
                      THEN [tok |-> "Error", lit |-> buffer]
                      ELSE last,
             rest |-> s]
    IN  IF s = <<>> THEN done
        ELSE IF isSpecialSymbol(Head(s))
        THEN LET buf == Append(buffer, Head(s))
             IN  IF string2token(buf) # "none"
                 THEN scanSpecialSymbol(Tail(s), buf,
                                        [tok |-> string2token(buf), lit |-> buf])
                 ELSE IF last.tok # "none" THEN done
                 ELSE scanSpecialSymbol(Tail(s), buf, last)
        ELSE done

RECURSIVE scanIDOrKeyword(_, _)
scanIDOrKeyword(s, buffer) ==
    IF s = <<>> \/ isSpecialSymbol(Head(s)) \/ isWhitespace(Head(s))
    THEN [item |-> [tok |-> "Identifier", lit |-> buffer], rest |-> s]
    ELSE scanIDOrKeyword(Tail(s), Append(buffer, Head(s)))

\* Parser.scan: every token of the string, the last one EndOfString
RECURSIVE scan(_)
scan(str) ==
    LET s == TrimLeft(str)
    IN  IF s = <<>> THEN <<EndOfString>>
        ELSE LET r == IF isSpecialSymbol(Head(s))
                      THEN scanSpecialSymbol(s, <<>>, NoItem)
                      ELSE scanIDOrKeyword(s, <<>>)
             IN  <<r.item>> \o scan(r.rest)

(***************************************************************************)
(* labels.Parser                                                           *)
(*                                                                         *)
(* Each step of a function that goes on with the result of a call is an    *)
(* operator that takes that result as a parameter.                         *)
(***************************************************************************)
TokAt(toks, pos) == IF pos > Len(toks) THEN EndOfString ELSE toks[pos]

NoReq == [key |-> <<>>, op |-> "none", val |-> <<>>]

NewRequirement(key, op, hasVal, val) ==
    IF ~IsQualifiedName(key)
    THEN [req |-> NoReq, err |-> Errorf(<<"invalid label key ">> \o key)]
    ELSE IF op \in {"GreaterThan", "LessThan"}
    THEN [req |-> NoReq,
          err |-> Errorf(<<"for 'Gt', 'Lt' operators, the value must be an integer">>)]
    ELSE IF hasVal /\ ~IsValidLabelValue(val)
    THEN [req |-> NoReq, err |-> Errorf(<<"invalid label value ">> \o val)]
    ELSE [req |-> [key |-> key, op |-> op, val |-> val], err |-> NilErr]

\* id is the token taken for the key, at idPos; next is the one after it
keyAndOperator(negated, id, idPos, next) ==
    IF id.tok # "Identifier"
    THEN [key |-> <<>>, op |-> "none", pos |-> idPos + 1,
          err |-> Errorf(<<"found '">> \o id.lit
                         \o <<"', expected: identifier">>)]
    ELSE IF ~IsQualifiedName(id.lit)
    THEN [key |-> <<>>, op |-> "none", pos |-> idPos + 1,
          err |-> Errorf(<<"invalid label key ">> \o id.lit)]
    ELSE [key |-> id.lit,
          op |-> IF negated THEN "DoesNotExist"
                 ELSE IF next.tok \in {"EndOfString", "Comma"} THEN "Exists"
                 ELSE "none",
          pos |-> idPos + 1,
          err |-> NilErr]

parseKeyAndInferOperator(toks, pos) ==
    IF TokAt(toks, pos).tok = "DoesNotExist"
    THEN keyAndOperator(TRUE, TokAt(toks, pos + 1), pos + 1, TokAt(toks, pos + 2))
    ELSE keyAndOperator(FALSE, TokAt(toks, pos), pos, TokAt(toks, pos + 1))

operatorOf(t, pos) ==
    IF t.tok \in {"Equals", "DoubleEquals", "GreaterThan", "LessThan",
                  "NotEquals"}
    THEN [op |-> t.tok, pos |-> pos + 1, err |-> NilErr]
    ELSE [op |-> "none", pos |-> pos + 1,
          err |-> Errorf(<<"found '">> \o t.lit
                         \o <<"', expected: in, notin, =, ==, !=, gt, lt">>)]

parseOperator(toks, pos) == operatorOf(TokAt(toks, pos), pos)

exactValueOf(t, pos) ==
    IF t.tok \in {"EndOfString", "Comma"}
    THEN [val |-> <<>>, pos |-> pos, err |-> NilErr]
    ELSE IF t.tok = "Identifier"
    THEN [val |-> t.lit, pos |-> pos + 1, err |-> NilErr]
    ELSE [val |-> <<>>, pos |-> pos + 1,
          err |-> Errorf(<<"found '">> \o t.lit
                         \o <<"', expected: identifier">>)]

parseExactValue(toks, pos) == exactValueOf(TokAt(toks, pos), pos)

requirementAt(n, pos) == [req |-> n.req, pos |-> pos, err |-> n.err]

\* parseRequirement after parseExactValue returned v
requirementWithValue(k, o, v) ==
    IF v.err.isErr THEN [req |-> NoReq, pos |-> v.pos, err |-> v.err]
    ELSE requirementAt(NewRequirement(k.key, o.op, TRUE, v.val), v.pos)

\* parseRequirement after parseOperator returned o
requirementWithOperator(toks, k, o) ==
    IF o.err.isErr THEN [req |-> NoReq, pos |-> o.pos, err |-> o.err]
    ELSE requirementWithValue(k, o, parseExactValue(toks, o.pos))

\* parseRequirement after parseKeyAndInferOperator returned k
requirementWithKey(toks, k) ==
    IF k.err.isErr THEN [req |-> NoReq, pos |-> k.pos, err |-> k.err]
    ELSE IF k.op \in {"Exists", "DoesNotExist"}
    THEN requirementAt(NewRequirement(k.key, k.op, FALSE, <<>>), k.pos)
    ELSE requirementWithOperator(toks, k, parseOperator(toks, k.pos))

parseRequirement(toks, pos) ==
    requirementWithKey(toks, parseKeyAndInferOperator(toks, pos))

RECURSIVE parse(_, _, _)
RECURSIVE parseAfterRequirement(_, _, _, _, _)

\* the loop of parse after parseRequirement returned r; sep is the token
\* that follows the requirement and after the one that follows sep
parseAfterRequirement(toks, requirements, r, sep, after) ==
    IF r.err.isErr THEN [reqs |-> <<>>, err |-> r.err]
    ELSE IF sep.tok = "EndOfString"
    THEN [reqs |-> Append(requirements, r.req), err |-> NilErr]
    ELSE IF sep.tok = "Comma"
    THEN IF after.tok \notin {"Identifier", "DoesNotExist"}
         THEN [reqs |-> <<>>,
               err |-> Errorf(<<"found '">> \o after.lit
                              \o <<"', expected: identifier after ','">>)]
         ELSE parse(toks, r.pos + 1, Append(requirements, r.req))
    ELSE [reqs |-> <<>>,
          err |-> Errorf(<<"found '">> \o sep.lit
                         \o <<"', expected: ',' or 'end of string'">>)]

parseRequirementAt(toks, requirements, r) ==
    parseAfterRequirement(toks, requirements, r, TokAt(toks, r.pos),
                          TokAt(toks, r.pos + 1))

parseToken(toks, pos, requirements, t) ==
    IF t.tok \in {"Identifier", "DoesNotExist"}
    THEN parseRequirementAt(toks, requirements, parseRequirement(toks, pos))
    ELSE IF t.tok = "EndOfString" THEN [reqs |-> requirements, err |-> NilErr]
    ELSE [reqs |-> <<>>,
          err |-> Errorf(<<"found '">> \o t.lit
                         \o <<"', expected: !, identifier, or 'end of string'">>)]

parse(toks, pos, requirements) ==
    parseToken(toks, pos, requirements, TokAt(toks, pos))

ParseToRequirements(str) == parse(scan(str), 1, <<>>)

(***************************************************************************)
(* metav1.ParseToLabelSelector, metav1.LabelSelectorAsSelector and the     *)
(* labels.Selector they build                                              *)
(***************************************************************************)
NilSel == [nil |-> TRUE, reqs |-> {}]

\* MatchLabels is a map: a later key=value requirement replaces an earlier
\* one on the same key
RECURSIVE MatchLabelsOf(_)
MatchLabelsOf(reqs) ==
    IF reqs = <<>> THEN {}
    ELSE IF reqs[Len(reqs)].op \in {"Equals", "DoubleEquals"}
    THEN {r \in MatchLabelsOf(SubSeq(reqs, 1, Len(reqs) - 1)) :
             r.key # reqs[Len(reqs)].key}
         \cup {[key |-> reqs[Len(reqs)].key, op |-> "Equals",
                val |-> reqs[Len(reqs)].val]}
    ELSE MatchLabelsOf(SubSeq(reqs, 1, Len(reqs) - 1))

MatchExpressionsOf(reqs) ==
    {[key |-> reqs[i].key, op |-> reqs[i].op, val |-> <<>>] :
        i \in {j \in 1..Len(reqs) : reqs[j].op \in {"Exists", "DoesNotExist"}}}

\* getSelectorFromString after labels.ParseToRequirements returned p
selectorFromRequirements(str, p) ==
    IF p.err.isErr
    THEN [sel |-> NilSel,
          err |-> Errorf(<<"couldn't parse the selector string ">> \o str
                         \o <<": ">> \o p.err.msg)]
    ELSE IF \E i \in 1..Len(p.reqs) :
                p.reqs[i].op \notin {"Equals", "DoubleEquals", "Exists",
                                     "DoesNotExist"}
    THEN [sel |-> NilSel,
          err |-> Errorf(<<"not a valid label selector operator">>)]
    ELSE [sel |-> [nil |-> FALSE,
                   reqs |-> MatchLabelsOf(p.reqs)
                            \cup MatchExpressionsOf(p.reqs)],
          err |-> NilErr]

getSelectorFromString(str) ==
    selectorFromRequirements(str, ParseToRequirements(str))

\* labels.Set
Has(ls, key) == key \in DOMAIN ls

RequirementMatches(r, ls) ==
    CASE r.op = "Equals" -> Has(ls, r.key) /\ ls[r.key] = r.val
      [] r.op = "Exists" -> Has(ls, r.key)
      [] r.op = "DoesNotExist" -> ~Has(ls, r.key)

Matches(sel, ls) == \A r \in sel.reqs : RequirementMatches(r, ls)

Empty(sel) == sel.reqs = {}

(***************************************************************************)
(* GetSelector                                                             *)
(***************************************************************************)
\* GetSelector after getSelectorFromString returned r
selectorResult(r) ==
    IF r.err.isErr
    THEN [sel |-> NilSel,
          err |-> Errorf(<<"while parsing ", AnnotationSelector, ": ">>
                         \o r.err.msg)]
    ELSE [sel |-> r.sel, err |-> NilErr]

GetSelector(o) ==
    selectorResult(getSelectorFromString(GetSelectorAnnotation(o)))

(***************************************************************************)
(* GetTreeSelector                                                         *)
(***************************************************************************)
\* validateTreeSelectorSegment once ns is cut from the segment
validateNamespace(ns, errStrs) ==
    IF Len(errStrs) # 0
    THEN [panic |-> FALSE,
          err |-> Errorf(<<"\"">> \o ns
                         \o <<"\" is not a valid namespace name: ">>
                         \o Join([i \in 1..Len(errStrs) |-> <<errStrs[i]>>],
                                 <<"; ">>))]
    ELSE [panic |-> FALSE, err |-> NilErr]

\* seg is the trimmed segment; seg[0] panics (index out of range) when it
\* is empty
validateTrimmedSegment(seg) ==
    IF seg = <<>> THEN [panic |-> TRUE, err |-> NilErr]
    ELSE IF seg[1] = "!"
    THEN validateNamespace(Tail(seg), IsDNS1123Label(Tail(seg)))
    ELSE validateNamespace(seg, IsDNS1123Label(seg))

validateTreeSelectorSegment(segment) ==
    validateTrimmedSegment(TrimSpace(segment))

RECURSIVE TreeSegments(_, _, _, _)
RECURSIVE TreeSegment(_, _, _, _, _, _)
RECURSIVE TreeSegmentUnnegated(_, _, _, _, _, _)

\* one turn of the loop, appending the suffix to the un-negated name
TreeSegmentUnnegated(segs, i, selectorStr, nonNegatedNses, seg, v) ==
    IF v.panic \/ v.err.isErr
    THEN [panic |-> v.panic, err |-> v.err, selectorStr |-> <<>>,
          nonNegatedNses |-> <<>>]
    ELSE TreeSegments(
             segs, i + 1,
             selectorStr
                 \o (IF seg[1] = "!" THEN Tail(seg) ELSE seg)
                 \o <<LabelTreeDepthSuffix>>
                 \o (IF i < Len(segs) THEN <<",", " ">> ELSE <<>>),
             IF seg[1] # "!" THEN Append(nonNegatedNses, seg)
             ELSE nonNegatedNses)

\* one turn of the loop of GetTreeSelector: seg is the trimmed segs[i] and
\* v what validateTreeSelectorSegment says of it
TreeSegment(segs, i, selectorStr, nonNegatedNses, seg, v) ==
    IF v.panic \/ v.err.isErr
    THEN [panic |-> v.panic, err |-> v.err, selectorStr |-> <<>>,
          nonNegatedNses |-> <<>>]
    ELSE TreeSegments(
             segs, i + 1,
             selectorStr \o seg \o <<LabelTreeDepthSuffix>>
                 \o (IF i < Len(segs) THEN <<",", " ">> ELSE <<>>),
             IF seg[1] # "!" THEN Append(nonNegatedNses, seg)
             ELSE nonNegatedNses)

\* the loop of GetTreeSelector over segs[i..]
TreeSegments(segs, i, selectorStr, nonNegatedNses) ==
    IF i > Len(segs)
    THEN [panic |-> FALSE, err |-> NilErr, selectorStr |-> selectorStr,
          nonNegatedNses |-> nonNegatedNses]
    ELSE TreeSegment(segs, i, selectorStr, nonNegatedNses,
                     TrimSpace(segs[i]),
                     validateTreeSelectorSegment(TrimSpace(segs[i])))

\* the end of GetTreeSelector without the limit on non-negated namespaces
treeSelectorResultNoLimit(l, t) ==
    IF t.err.isErr
    THEN [sel |-> NilSel,
          err |-> Errorf(<<"internal error while parsing ",
                           AnnotationTreeSelector, ": ">> \o t.err.msg),
          panic |-> FALSE]
    ELSE [sel |-> t.sel, err |-> NilErr, panic |-> FALSE]

\* the end of GetTreeSelector: l is what the loop left, t what
\* getSelectorFromString returned for l.selectorStr
treeSelectorResult(l, t) ==
    IF t.err.isErr
    THEN [sel |-> NilSel,
          err |-> Errorf(<<"internal error while parsing ",
                           AnnotationTreeSelector, ": ">> \o t.err.msg),
          panic |-> FALSE]
    ELSE IF Len(l.nonNegatedNses) > 1
    THEN [sel |-> NilSel,
          err |-> Errorf(<<"should only have one non-negated namespace, but got multiple: ",
                           "[">>
                         \o Join(l.nonNegatedNses, <<" ">>)
                         \o <<"]">>),
          panic |-> FALSE]
    ELSE [sel |-> t.sel, err |-> NilErr, panic |-> FALSE]

\* GetTreeSelector after its loop
treeSelectorAfterLoop(l) ==
    IF l.panic THEN [sel |-> NilSel, err |-> NilErr, panic |-> TRUE]
    ELSE IF l.err.isErr THEN [sel |-> NilSel, err |-> l.err, panic |-> FALSE]
    ELSE treeSelectorResult(l, getSelectorFromString(l.selectorStr))

treeSelectorFrom(treeSelectorStr) ==
    IF treeSelectorStr = <<>>
    THEN [sel |-> NilSel, err |-> NilErr, panic |-> FALSE]
    ELSE treeSelectorAfterLoop(
             TreeSegments(Split(treeSelectorStr, ","), 1, <<>>, <<>>))

GetTreeSelector(o) == treeSelectorFrom(GetTreeSelectorAnnotation(o))

(***************************************************************************)
(* isExcluded                                                              *)
(***************************************************************************)
cmExclusionsByName == <<"istio-ca-root-cert", "kube-root-ca.crt">>

exclusionByLabels == <<[Key |-> "cattle.io/creator", Value |-> <<"norman">>]>>

exclusionByAnnotations == <<[Key |-> "openshift.io/description", Value |-> <<>>]>>

\* isExcluded whose by-annotation rule compares values only
isExcludedNoWildcard(o) ==
    LET byName ==
            \E i \in 1..Len(cmExclusionsByName) :
                o.group = "" /\ o.kind = "ConfigMap"
                /\ o.name = cmExclusionsByName[i]
        byLabel ==
            \E i \in 1..Len(exclusionByLabels) :
                LET res == exclusionByLabels[i]
                IN  MapHas(o.labels, res.Key)
                    /\ MapGet(o.labels, res.Key) = res.Value
        byAnnotation ==
            \E i \in 1..Len(exclusionByAnnotations) :
                LET res == exclusionByAnnotations[i]
                IN  MapHas(o.annotations, res.Key)
                    /\ MapGet(o.annotations, res.Key) = res.Value
    IN  [val |-> byName \/ byLabel \/ byAnnotation, err |-> NilErr]

isExcluded(o) ==
    LET byName ==
            \E i \in 1..Len(cmExclusionsByName) :
                o.group = "" /\ o.kind = "ConfigMap"
                /\ o.name = cmExclusionsByName[i]
        byLabel ==
            \E i \in 1..Len(exclusionByLabels) :
                LET res == exclusionByLabels[i]
                IN  MapHas(o.labels, res.Key)
                    /\ MapGet(o.labels, res.Key) = res.Value
        byAnnotation ==
            \E i \in 1..Len(exclusionByAnnotations) :
                LET res == exclusionByAnnotations[i]
                IN  MapHas(o.annotations, res.Key)
                    /\ (MapGet(o.annotations, res.Key) = res.Value
                        \/ res.Value = <<>>)
    IN  [val |-> byName \/ byLabel \/ byAnnotation, err |-> NilErr]

(***************************************************************************)
(* SelectorExists and ShouldPropagate                                      *)
(***************************************************************************)
Return(v, e) == [val |-> v, err |-> e, panic |-> FALSE]
Panic == [val |-> FALSE, err |-> NilErr, panic |-> TRUE]

\* the steps of SelectorExists over what the four getters return
selectorExistsSteps(s, t, none, all) ==
    IF s.err.isErr THEN Return(FALSE, s.err)
    ELSE IF ~s.sel.nil /\ ~Empty(s.sel) THEN Return(TRUE, NilErr)
    ELSE IF t.panic THEN Panic
    ELSE IF t.err.isErr THEN Return(FALSE, t.err)
    ELSE IF ~t.sel.nil /\ ~Empty(t.sel) THEN Return(TRUE, NilErr)
    ELSE IF none.err.isErr \/ none.val THEN Return(TRUE, none.err)
    ELSE IF all.err.isErr \/ all.val THEN Return(TRUE, all.err)
    ELSE Return(FALSE, NilErr)

\* SelectorExists that takes any non-empty flag annotation for a directive
SelectorExistsAnyFlag(o, ls) ==
    selectorExistsSteps(
        GetSelector(o), GetTreeSelector(o),
        [val |-> GetNoneSelectorAnnotation(o) # <<>>,
         err |-> GetNoneSelector(o).err],
        [val |-> GetAllSelectorAnnotation(o) # <<>>,
         err |-> GetAllSelector(o).err])

SelectorExists(o, ls) ==
    selectorExistsSteps(GetSelector(o), GetTreeSelector(o),
                        GetNoneSelector(o), GetAllSelector(o))

\* the last steps of ShouldPropagate, exclusion rules before the all flag
lastStepsExclusionFirst(all, excluded) ==
    IF excluded.val THEN Return(FALSE, excluded.err)
    ELSE IF all.err.isErr \/ all.val THEN Return(TRUE, all.err)
    ELSE Return(TRUE, NilErr)

\* the last steps of ShouldPropagate: the all flag, then the exclusion rules
lastSteps(all, excluded) ==
    IF all.err.isErr \/ all.val THEN Return(TRUE, all.err)
    ELSE IF excluded.val THEN Return(FALSE, excluded.err)
    ELSE Return(TRUE, NilErr)

\* the steps of ShouldPropagate over what the getters return; last is what
\* the steps after the none flag give
shouldPropagateSteps(s, t, none, last, ls) ==
    IF s.err.isErr THEN Return(FALSE, s.err)
    ELSE IF ~s.sel.nil /\ ~Matches(s.sel, ls) THEN Return(FALSE, NilErr)
    ELSE IF t.panic THEN Panic
    ELSE IF t.err.isErr THEN Return(FALSE, t.err)
    ELSE IF ~t.sel.nil /\ ~Matches(t.sel, ls) THEN Return(FALSE, NilErr)
    ELSE IF none.err.isErr \/ none.val THEN Return(FALSE, none.err)
    ELSE last

\* ShouldPropagate that consults the exclusion rules before the all flag
ShouldPropagateExclusionFirst(o, ls) ==
    shouldPropagateSteps(
        GetSelector(o), GetTreeSelector(o), GetNoneSelector(o),
        lastStepsExclusionFirst(GetAllSelector(o), isExcluded(o)), ls)

ShouldPropagate(o, ls) ==
    shouldPropagateSteps(
        GetSelector(o), GetTreeSelector(o), GetNoneSelector(o),
        lastSteps(GetAllSelector(o), isExcluded(o)), ls)

(***************************************************************************)
(* Inputs                                                                  *)
(***************************************************************************)
\* an annotation map: a key whose value is "absent" (the empty string in
\* these four arguments) is left out of the map
SelectorAnnotations(plain, tree, none, all) ==
    LET given == [k \in {AnnotationSelector, AnnotationTreeSelector,
                         AnnotationNoneSelector, AnnotationAllSelector} |->
                    CASE k = AnnotationSelector -> plain
                      [] k = AnnotationTreeSelector -> tree
                      [] k = AnnotationNoneSelector -> none
                      [] k = AnnotationAllSelector -> all]
    IN  [k \in {x \in DOMAIN given : given[x] # <<>>} |-> given[k]]

NoMap == [k \in {} |-> <<>>]

Object(name, kind, group, annotations, labels) ==
    [name |-> name, kind |-> kind, group |-> group,
     annotations |-> annotations, labels |-> labels]

PlainObject == Object("cm", "Secret", "", NoMap, NoMap)

ObjectSamples ==
    {PlainObject,
     Object("kube-root-ca.crt", "ConfigMap", "", NoMap, NoMap),
     Object("cm", "ConfigMap", "", NoMap, "cattle.io/creator" :> <<"norman">>)}

PlainSamples ==
    {<<>>, <<"a">>, <<"!", "a">>, <<"a", "=", "b">>, <<" ">>, <<"=">>,
     <<"a", ",">>}

TreeSamples ==
    {<<>>, <<"a">>, <<"!", "a">>, <<"a", ",", "!", "b">>, <<"a", ",", "b">>,
     <<"-", "a">>, <<"a", ",">>}

FlagSamples ==
    {<<>>, Str4("t", "r", "u", "e"), Str5("f", "a", "l", "s", "e"), <<"x">>}

DepthKey(ns) == Append(ns, LabelTreeDepthSuffix)

\* label sets of the destination namespace
LabelSets(keys, values) ==
    UNION {[d -> values] : d \in SUBSET keys}

NsLabelSamples ==
    {(IF p = <<>> THEN NoMap ELSE <<"a">> :> p) @@ [k \in d |-> <<"0">>] :
        p \in {<<>>, <<"a">>, <<"b">>},
        d \in SUBSET {DepthKey(<<"a">>), DepthKey(<<"b">>)}}

TreeAlphabet == {"a", "b", "-", "!", ",", " ", Run}
TreeInputs == StringsUpTo(TreeAlphabet, MaxTreeLen)
TreeNsLabels == LabelSets({DepthKey(<<"a">>), DepthKey(<<"b">>)}, {<<"0">>})

ToUpper(c) ==
    CASE c = "t" -> "T" [] c = "r" -> "R" [] c = "u" -> "U" [] c = "e" -> "E"
      [] c = "f" -> "F" [] c = "a" -> "A" [] c = "l" -> "L" [] c = "s" -> "S"
      [] OTHER -> c

CaseVariants(word) ==
    {[i \in 1..Len(word) |-> IF i \in up THEN ToUpper(word[i]) ELSE word[i]] :
        up \in SUBSET (1..Len(word))}

FlagAlphabet == {"t", "T", "f", "F", "1", "0", "e", "x"}
FlagInputs ==
    StringsUpTo(FlagAlphabet, MaxFlagLen)
    \cup CaseVariants(Str4("t", "r", "u", "e"))
    \cup CaseVariants(Str5("f", "a", "l", "s", "e"))

(***************************************************************************)
(* The state: the object and the namespace labels a caller holds, and what *)
(* the last call returned.                                                 *)
(***************************************************************************)
NoCall ==
    [op |-> "none", val |-> FALSE, err |-> NilErr, panic |-> FALSE,
     sel |-> NilSel]

Called(op, val, err, panic, sel) ==
    [op |-> op, val |-> val, err |-> err, panic |-> panic, sel |-> sel]

\* every combination of sample annotations on a sample object
Init ==
    /\ \E o \in ObjectSamples, plain \in PlainSamples, tree \in TreeSamples,
          none \in FlagSamples, all \in FlagSamples :
            inst = [o EXCEPT !.annotations =
                        SelectorAnnotations(plain, tree, none, all)]
    /\ nsLabels \in NsLabelSamples
    /\ ret = NoCall

\* every tree-selector value up to MaxTreeLen chunks
InitTree ==
    /\ \E tree \in TreeInputs :
            inst = [PlainObject EXCEPT !.annotations =
                        SelectorAnnotations(<<>>, tree, <<>>, <<>>)]
    /\ nsLabels \in TreeNsLabels
    /\ ret = NoCall

\* every flag value, on the none key, the all key or both; the empty value
\* both as an absent key and as a key present with an empty value
InitFlag ==
    /\ \E v \in FlagInputs, onNone \in BOOLEAN, onAll \in BOOLEAN,
          present \in BOOLEAN :
            /\ onNone \/ onAll
            /\ present => v = <<>>
            /\ inst = [PlainObject EXCEPT !.annotations =
                        IF present
                        THEN [k \in ({AnnotationNoneSelector : x \in {onNone} \ {FALSE}}
                                     \cup {AnnotationAllSelector : x \in {onAll} \ {FALSE}})
                                |-> <<>>]
                        ELSE SelectorAnnotations(
                                 <<>>, <<>>,
                                 IF onNone THEN v ELSE <<>>,
                                 IF onAll THEN v ELSE <<>>)]
    /\ nsLabels = NoMap
    /\ ret = NoCall

\* every object the exclusion rules tell apart
InitExcluded ==
    /\ \E name \in {"istio-ca-root-cert", "kube-root-ca.crt", "other"},
          kind \in {"ConfigMap", "Secret"},
          group \in {"", "apps"},
          creator \in {<<"absent">>, <<>>, <<"norman">>, <<"rancher">>},
          description \in {<<"absent">>, <<>>, <<"text">>},
          ownerKey \in BOOLEAN :
            inst = Object(name, kind, group,
                       (IF description = <<"absent">> THEN NoMap
                        ELSE "openshift.io/description" :> description)
                       @@ (IF ownerKey THEN "owner" :> <<>> ELSE NoMap),
                       (IF creator = <<"absent">> THEN NoMap
                        ELSE "cattle.io/creator" :> creator)
                       @@ (IF ownerKey THEN "norman" :> <<"norman">> ELSE NoMap))
    /\ nsLabels = NoMap
    /\ ret = NoCall

(***************************************************************************)
(* One action per exported call                                            *)
(***************************************************************************)
CallShouldPropagate ==
    /\ LET r == ShouldPropagate(inst, nsLabels)
       IN  ret' = Called("ShouldPropagate", r.val, r.err, r.panic, NilSel)
    /\ UNCHANGED <<inst, nsLabels>>

CallSelectorExists ==
    /\ LET r == SelectorExists(inst, nsLabels)
       IN  ret' = Called("SelectorExists", r.val, r.err, r.panic, NilSel)
    /\ UNCHANGED <<inst, nsLabels>>

CallGetSelector ==
    /\ LET r == GetSelector(inst)
       IN  ret' = Called("GetSelector", FALSE, r.err, FALSE, r.sel)
    /\ UNCHANGED <<inst, nsLabels>>

CallGetTreeSelector ==
    /\ LET r == GetTreeSelector(inst)
       IN  ret' = Called("GetTreeSelector", FALSE, r.err, r.panic, r.sel)
    /\ UNCHANGED <<inst, nsLabels>>

CallGetNoneSelector ==
    /\ LET r == GetNoneSelector(inst)
       IN  ret' = Called("GetNoneSelector", r.val, r.err, FALSE, NilSel)
    /\ UNCHANGED <<inst, nsLabels>>

CallGetAllSelector ==
    /\ LET r == GetAllSelector(inst)
       IN  ret' = Called("GetAllSelector", r.val, r.err, FALSE, NilSel)
    /\ UNCHANGED <<inst, nsLabels>>

CallIsExcluded ==
    /\ LET r == isExcluded(inst)
       IN  ret' = Called("isExcluded", r.val, r.err, FALSE, NilSel)
    /\ UNCHANGED <<inst, nsLabels>>

Next ==
    \/ CallShouldPropagate
    \/ CallSelectorExists
    \/ CallGetSelector
    \/ CallGetTreeSelector
    \/ CallGetNoneSelector
    \/ CallGetAllSelector
    \/ CallIsExcluded

\* the calls that read the tree selector
NextTree ==
    \/ CallGetTreeSelector
    \/ CallShouldPropagate
    \/ CallSelectorExists

\* the calls that read the flags
NextFlag ==
    \/ CallGetNoneSelector
    \/ CallGetAllSelector

\* the calls that read the exclusion tables
NextExcluded ==
    \/ CallIsExcluded
    \/ CallShouldPropagate

Spec == Init /\ [][Next]_vars
SpecTree == InitTree /\ [][NextTree]_vars
SpecFlag == InitFlag /\ [][NextFlag]_vars
SpecExcluded == InitExcluded /\ [][NextExcluded]_vars

(***************************************************************************)
(* Properties                                                              *)
(***************************************************************************)
WellFormed(o) ==
    /\ ~GetSelector(o).err.isErr
    /\ ~GetTreeSelector(o).err.isErr /\ ~GetTreeSelector(o).panic
    /\ ~GetNoneSelector(o).err.isErr
    /\ ~GetAllSelector(o).err.isErr

Returned(op) == ret.op = op /\ ~ret.panic

\* the first decisive step of the chain of section 4.6
ChainVerdict(o, ls) ==
    IF ~GetSelector(o).sel.nil /\ ~Matches(GetSelector(o).sel, ls) THEN FALSE
    ELSE IF ~GetTreeSelector(o).sel.nil /\ ~Matches(GetTreeSelector(o).sel, ls)
    THEN FALSE
    ELSE IF GetNoneSelector(o).val THEN FALSE
    ELSE IF GetAllSelector(o).val THEN TRUE
    ELSE IF isExcluded(o).val THEN FALSE
    ELSE TRUE

NoMismatch(o, ls) ==
    /\ Matches(GetSelector(o).sel, ls)
    /\ Matches(GetTreeSelector(o).sel, ls)

\* C1: on an object whose four annotations are all well-formed,
\* ShouldPropagate returns no error and the verdict of the first decisive
\* step of the chain plain selector, tree selector, none, all, exclusion;
\* none with all gives false, all on an excluded object gives true.
C1_Chain ==
    (ret.op = "ShouldPropagate" /\ WellFormed(inst)) =>
        /\ ~ret.panic
        /\ ~ret.err.isErr
        /\ ret.val = ChainVerdict(inst, nsLabels)
        /\ (GetNoneSelectorAnnotation(inst) \in TrueLiterals
            /\ GetAllSelectorAnnotation(inst) \in TrueLiterals) => ret.val = FALSE
        /\ (GetAllSelectorAnnotation(inst) \in TrueLiterals
            /\ GetNoneSelectorAnnotation(inst) \notin TrueLiterals
            /\ isExcluded(inst).val
            /\ NoMismatch(inst, nsLabels)) => ret.val = TRUE

C1_Witness ==
    /\ ret.op = "ShouldPropagate"
    /\ WellFormed(inst)
    /\ inst.name = "kube-root-ca.crt" /\ inst.kind = "ConfigMap"
    /\ GetAllSelectorAnnotation(inst) = Str4("t", "r", "u", "e")
    /\ GetSelectorAnnotation(inst) = <<"a", "=", "b">>
    /\ GetTreeSelectorAnnotation(inst) = <<"a", ",", "!", "b">>
    /\ ret.val = TRUE

\* C2: whenever one of the four annotations is malformed, ShouldPropagate
\* returns a non-nil error, whatever the other annotations are.
C2_MalformedGivesError ==
    (ret.op = "ShouldPropagate" /\ ~WellFormed(inst)) =>
        (~ret.panic /\ ret.err.isErr)

\* C3: the verdict ShouldPropagate returns with a non-nil error is false.
C3_FailClosed ==
    (Returned("ShouldPropagate") /\ ret.err.isErr) => ret.val = FALSE

(***************************************************************************)
(* The tree selector, as the specification describes it                    *)
(***************************************************************************)
Segs ==
    LET raw == Split(GetTreeSelectorAnnotation(inst), ",")
    IN  [i \in 1..Len(raw) |-> TrimSpace(raw[i])]

SegNegated(seg) == seg # <<>> /\ seg[1] = "!"
SegName(seg) == IF SegNegated(seg) THEN Tail(seg) ELSE seg

\* a hostname-style label of 1 to 63 characters
ValidName(n) ==
    /\ 1 <= StrLen(n) /\ StrLen(n) <= 63
    /\ \A i \in 1..Len(n) : n[i] \in {"a", "b", Run, "-"}
    /\ n[1] # "-" /\ n[Len(n)] # "-"

AllSegsValid == \A i \in 1..Len(Segs) : ValidName(SegName(Segs[i]))

NotNegated(seg) == ~SegNegated(seg)
NonNegated == SelectSeq(Segs, NotNegated)

Contains(msg, part) ==
    \E i \in 1..Len(msg) : SubSeq(msg, i, i + Len(part) - 1) = part

\* C4: for a non-empty tree-selector value GetTreeSelector returns a
\* selector or an error and never crashes, and it returns an error when
\* some trimmed segment, without its leading '!', is not a valid name.
C4_NeverCrashes ==
    (ret.op = "GetTreeSelector" /\ GetTreeSelectorAnnotation(inst) # <<>>) =>
        /\ ~ret.panic
        /\ ~AllSegsValid => ret.err.isErr

\* C5: when every segment is a valid name, GetTreeSelector returns an error
\* listing all non-negated names if more than one segment is not negated,
\* and a selector with no error otherwise; a returned selector was built
\* from at most one non-negated namespace.
C5_SingleNonNegated ==
    /\ (ret.op = "GetTreeSelector" /\ GetTreeSelectorAnnotation(inst) # <<>>
        /\ AllSegsValid) =>
            /\ ~ret.panic
            /\ IF Len(NonNegated) > 1
               THEN /\ ret.err.isErr
                    /\ ret.sel.nil
                    /\ \A i \in 1..Len(NonNegated) :
                            Contains(ret.err.msg, NonNegated[i])
               ELSE ~ret.err.isErr /\ ~ret.sel.nil
    /\ (ret.op = "GetTreeSelector" /\ ~ret.sel.nil) =>
            /\ Len(NonNegated) <= 1
            /\ Cardinality({r \in ret.sel.reqs : r.op = "Exists"}) <= 1

C5_Witness ==
    /\ ret.op = "GetTreeSelector"
    /\ GetTreeSelectorAnnotation(inst) = <<"a", ",", "b">>
    /\ ret.err.isErr
    /\ Contains(ret.err.msg, <<"a", " ", "b">>)

\* what the tree selector asks of a label set
TreeExpects(ls) ==
    \A i \in 1..Len(Segs) :
        IF SegNegated(Segs[i])
        THEN DepthKey(SegName(Segs[i])) \notin DOMAIN ls
        ELSE DepthKey(SegName(Segs[i])) \in DOMAIN ls

AnyDepthLabels ==
    LabelSets({DepthKey(<<"a">>), DepthKey(<<"b">>)}, {<<"0">>, <<"1">>})

\* C6: the selector GetTreeSelector returns matches a label set exactly when
\* the set has the depth key of every non-negated segment, with any value,
\* and lacks the depth key of every negated segment; ShouldPropagate on an
\* object with only that annotation gives the same answer.
C6_TreeMatches ==
    /\ (ret.op = "GetTreeSelector" /\ ~ret.sel.nil) =>
            \A ls \in AnyDepthLabels : Matches(ret.sel, ls) <=> TreeExpects(ls)
    /\ (ret.op = "ShouldPropagate" /\ ~GetTreeSelector(inst).sel.nil) =>
            /\ ~ret.panic /\ ~ret.err.isErr
            /\ ret.val = TreeExpects(nsLabels)

C6_Witness ==
    /\ ret.op = "ShouldPropagate"
    /\ GetTreeSelectorAnnotation(inst) = <<"!", "a", ",", "b">>
    /\ DOMAIN nsLabels = {DepthKey(<<"b">>)}
    /\ ret.val = TRUE

(***************************************************************************)
(* SelectorExists, the flags, the exclusion rules, the error messages      *)
(***************************************************************************)
IsTrueFlag(v) ==
    v \in {<<"1">>, <<"t">>, <<"T">>, <<"t", "r", "u", "e">>,
           <<"T", "R", "U", "E">>, <<"T", "r", "u", "e">>}

IsFalseFlag(v) ==
    v \in {<<"0">>, <<"f">>, <<"F">>, <<"f", "a", "l", "s", "e">>,
           <<"F", "A", "L", "S", "E">>, <<"F", "a", "l", "s", "e">>}

\* C7: on an object whose four annotations are all well-formed,
\* SelectorExists returns no error, and true exactly when the plain selector
\* is non-empty, or the tree selector is present and non-empty, or the none
\* flag is true, or the all flag is true; nsLabels does not change the result.
C7_SelectorExists ==
    (ret.op = "SelectorExists" /\ WellFormed(inst)) =>
        /\ ~ret.panic
        /\ ~ret.err.isErr
        /\ ret.val <=>
              \/ ~Empty(GetSelector(inst).sel)
              \/ GetTreeSelectorAnnotation(inst) # <<>>
              \/ IsTrueFlag(GetNoneSelectorAnnotation(inst))
              \/ IsTrueFlag(GetAllSelectorAnnotation(inst))
        /\ \A ls \in NsLabelSamples :
              SelectorExists(inst, ls) = [val |-> ret.val, err |-> ret.err,
                                          panic |-> ret.panic]

C7_Witness ==
    /\ ret.op = "SelectorExists"
    /\ DOMAIN inst.annotations = {AnnotationNoneSelector, AnnotationAllSelector}
    /\ IsFalseFlag(GetNoneSelectorAnnotation(inst))
    /\ IsFalseFlag(GetAllSelectorAnnotation(inst))
    /\ ~ret.err.isErr
    /\ ret.val = FALSE

FlagCall == ret.op \in {"GetNoneSelector", "GetAllSelector"}

FlagValue ==
    IF ret.op = "GetNoneSelector" THEN GetNoneSelectorAnnotation(inst)
    ELSE GetAllSelectorAnnotation(inst)

FlagReturns(v) == ~ret.err.isErr /\ ret.val = v

\* C8 as claimed: the flag parser accepts "1", "t" and every letter-case
\* variant of "true" as true, "0", "f" and every letter-case variant of
\* "false" as false ("T" and "F" taken as variants of "t" and "f"), and
\* returns an error for every other non-empty string.
C8_AnyLetterCase ==
    FlagCall =>
        IF FlagValue = <<>> THEN FlagReturns(FALSE)
        ELSE IF FlagValue \in {<<"1">>, <<"t">>, <<"T">>}
                               \cup CaseVariants(Str4("t", "r", "u", "e"))
        THEN FlagReturns(TRUE)
        ELSE IF FlagValue \in {<<"0">>, <<"f">>, <<"F">>}
                               \cup CaseVariants(Str5("f", "a", "l", "s", "e"))
        THEN FlagReturns(FALSE)
        ELSE ret.err.isErr

\* C8: the flag parser returns (false, no error) for an absent or empty
\* annotation, (true, no error) exactly for 1, t, T, true, TRUE, True,
\* (false, no error) exactly for 0, f, F, false, FALSE, False, and an error
\* for every other non-empty string, mixed-case spellings included.
C8_FlagLiterals ==
    FlagCall =>
        IF FlagValue = <<>> THEN FlagReturns(FALSE)
        ELSE IF IsTrueFlag(FlagValue) THEN FlagReturns(TRUE)
        ELSE IF IsFalseFlag(FlagValue) THEN FlagReturns(FALSE)
        ELSE ret.err.isErr /\ ret.val = FALSE

C8_Witness ==
    /\ ret.op = "GetAllSelector"
    /\ FlagValue = <<"t", "R", "u", "e">>
    /\ ret.err.isErr

ExcludedByName ==
    /\ inst.group = ""
    /\ inst.kind = "ConfigMap"
    /\ inst.name \in {"istio-ca-root-cert", "kube-root-ca.crt"}

ExcludedByLabel ==
    /\ "cattle.io/creator" \in DOMAIN inst.labels
    /\ inst.labels["cattle.io/creator"] = <<"norman">>

ExcludedByAnnotation == "openshift.io/description" \in DOMAIN inst.annotations

\* C9: isExcluded returns true with a nil error exactly when the object is
\* a core ConfigMap with a denylisted name, or carries a by-label entry's
\* key with the entry's value, or carries a by-annotation entry's key whose
\* value equals the entry's or whose entry is the empty wildcard; it never
\* modifies the object.
C9_Excluded ==
    /\ [](ret.op = "isExcluded" =>
            /\ ~ret.err.isErr
            /\ ret.val <=>
                  (ExcludedByName \/ ExcludedByLabel \/ ExcludedByAnnotation))
    /\ [][inst' = inst]_vars

C9_Witness ==
    /\ ret.op = "isExcluded"
    /\ ~ExcludedByName
    /\ "cattle.io/creator" \in DOMAIN inst.labels
    /\ ~ExcludedByLabel
    /\ MapHas(inst.annotations, "openshift.io/description")
    /\ MapGet(inst.annotations, "openshift.io/description") = <<"text">>
    /\ ret.val = TRUE

NamesKey(err, key) == \E i \in 1..Len(err.msg) : err.msg[i] = key

\* C10: every error of the four getters names the annotation key that
\* produced it, and so does every error of ShouldPropagate and
\* SelectorExists.
C10_ErrorNamesKey ==
    ret.err.isErr =>
        CASE ret.op = "GetSelector" -> NamesKey(ret.err, AnnotationSelector)
          [] ret.op = "GetTreeSelector" ->
                NamesKey(ret.err, AnnotationTreeSelector)
          [] ret.op = "GetNoneSelector" ->
                NamesKey(ret.err, AnnotationNoneSelector)
          [] ret.op = "GetAllSelector" ->
                NamesKey(ret.err, AnnotationAllSelector)
          [] OTHER ->
                \E key \in {AnnotationSelector, AnnotationTreeSelector,
                            AnnotationNoneSelector, AnnotationAllSelector} :
                    NamesKey(ret.err, key)

====
